---------------------------- MODULE Spec2Model ----------------------------
(***************************************************************************)
(* replace-icons.py: read CrmLayout.tsx as UTF-8 text, replace the block   *)
(* "// Iconos SVG minimalistas\nconst Icons = { ... \n};" by the Lucide     *)
(* icon block with re.sub, write the text back, print a confirmation.      *)
(*                                                                         *)
(* Text is a sequence of Unicode code points, a file a sequence of bytes   *)
(* (or NoFile).  Python's text layer is modelled by what it does: strict   *)
(* UTF-8 decoding, universal-newline translation on read, "\n" to          *)
(* os.linesep translation on write, UTF-8 encoding.                        *)
(***************************************************************************)
EXTENDS Integers, Sequences, FiniteSets

(***************************************************************************)
(* Bounds of the model.                                                    *)
(***************************************************************************)
\* A file's initial content is a concatenation of at most MaxPieces pieces.
MaxPieces == 3
\* The same, for the two-instance specification.
MaxPiecesConc == 2

(***************************************************************************)
(* Literals of the script.                                                 *)
(***************************************************************************)
\* src line 49, the literal head of the pattern:
\*   "// Iconos SVG minimalistas\nconst Icons = {"
pattern_open ==
    <<47, 47, 32, 73, 99, 111, 110, 111, 115, 32, 83, 86, 71, 32, 109, 105,
      110, 105, 109, 97, 108, 105, 115, 116, 97, 115, 10, 99, 111, 110, 115,
      116, 32, 73, 99, 111, 110, 115, 32, 61, 32, 123>>

\* src line 49, the literal tail of the pattern: "\n};"
pattern_close == <<10, 125, 59>>

\* src lines 8-46, the replacement block, one tuple per source line.
icons_replacement ==
    \* line 8: // Iconos Premium con Lucide - stroke-width 1.75, size 20\n
    <<47, 47, 32, 73, 99, 111, 110, 111, 115, 32, 80, 114, 101, 109, 105, 117, 109, 32, 99, 111, 110, 32, 76, 117, 99, 105, 100, 101, 32, 45, 32, 115, 116, 114, 111, 107, 101, 45, 119, 105, 100, 116, 104, 32, 49, 46, 55, 53, 44, 32, 115, 105, 122, 101, 32, 50, 48, 10>> \o
    \* line 9: const iconSize = 20;\n
    <<99, 111, 110, 115, 116, 32, 105, 99, 111, 110, 83, 105, 122, 101, 32, 61, 32, 50, 48, 59, 10>> \o
    \* line 10: const iconStroke = 1.75;\n
    <<99, 111, 110, 115, 116, 32, 105, 99, 111, 110, 83, 116, 114, 111, 107, 101, 32, 61, 32, 49, 46, 55, 53, 59, 10>> \o
    \* line 11: \n
    <<10>> \o
    \* line 12: const Icons = {\n
    <<99, 111, 110, 115, 116, 32, 73, 99, 111, 110, 115, 32, 61, 32, 123, 10>> \o
    \* line 13:   dashboard: <LayoutGrid size={iconSize} strokeWidth={iconStroke} />,\n
    <<32, 32, 100, 97, 115, 104, 98, 111, 97, 114, 100, 58, 32, 60, 76, 97, 121, 111, 117, 116, 71, 114, 105, 100, 32, 115, 105, 122, 101, 61, 123, 105, 99, 111, 110, 83, 105, 122, 101, 125, 32, 115, 116, 114, 111, 107, 101, 87, 105, 100, 116, 104, 61, 123, 105, 99, 111, 110, 83, 116, 114, 111, 107, 101, 125, 32, 47, 62, 44, 10>> \o
    \* line 14:   propiedades: <Home size={iconSize} strokeWidth={iconStroke} />,\n
    <<32, 32, 112, 114, 111, 112, 105, 101, 100, 97, 100, 101, 115, 58, 32, 60, 72, 111, 109, 101, 32, 115, 105, 122, 101, 61, 123, 105, 99, 111, 110, 83, 105, 122, 101, 125, 32, 115, 116, 114, 111, 107, 101, 87, 105, 100, 116, 104, 61, 123, 105, 99, 111, 110, 83, 116, 114, 111, 107, 101, 125, 32, 47, 62, 44, 10>> \o
    \* line 15:   pipeline: <Briefcase size={iconSize} strokeWidth={iconStroke} />,\n
    <<32, 32, 112, 105, 112, 101, 108, 105, 110, 101, 58, 32, 60, 66, 114, 105, 101, 102, 99, 97, 115, 101, 32, 115, 105, 122, 101, 61, 123, 105, 99, 111, 110, 83, 105, 122, 101, 125, 32, 115, 116, 114, 111, 107, 101, 87, 105, 100, 116, 104, 61, 123, 105, 99, 111, 110, 83, 116, 114, 111, 107, 101, 125, 32, 47, 62, 44, 10>> \o
    \* line 16:   propuestas: <FileText size={iconSize} strokeWidth={iconStroke} />,\n
    <<32, 32, 112, 114, 111, 112, 117, 101, 115, 116, 97, 115, 58, 32, 60, 70, 105, 108, 101, 84, 101, 120, 116, 32, 115, 105, 122, 101, 61, 123, 105, 99, 111, 110, 83, 105, 122, 101, 125, 32, 115, 116, 114, 111, 107, 101, 87, 105, 100, 116, 104, 61, 123, 105, 99, 111, 110, 83, 116, 114, 111, 107, 101, 125, 32, 47, 62, 44, 10>> \o
    \* line 17:   clientes: <Users size={iconSize} strokeWidth={iconStroke} />,\n
    <<32, 32, 99, 108, 105, 101, 110, 116, 101, 115, 58, 32, 60, 85, 115, 101, 114, 115, 32, 115, 105, 122, 101, 61, 123, 105, 99, 111, 110, 83, 105, 122, 101, 125, 32, 115, 116, 114, 111, 107, 101, 87, 105, 100, 116, 104, 61, 123, 105, 99, 111, 110, 83, 116, 114, 111, 107, 101, 125, 32, 47, 62, 44, 10>> \o
    \* line 18:   equipo: <User size={iconSize} strokeWidth={iconStroke} />,\n
    <<32, 32, 101, 113, 117, 105, 112, 111, 58, 32, 60, 85, 115, 101, 114, 32, 115, 105, 122, 101, 61, 123, 105, 99, 111, 110, 83, 105, 122, 101, 125, 32, 115, 116, 114, 111, 107, 101, 87, 105, 100, 116, 104, 61, 123, 105, 99, 111, 110, 83, 116, 114, 111, 107, 101, 125, 32, 47, 62, 44, 10>> \o
    \* line 19:   usuarios: <Users size={iconSize} strokeWidth={iconStroke} />,\n
    <<32, 32, 117, 115, 117, 97, 114, 105, 111, 115, 58, 32, 60, 85, 115, 101, 114, 115, 32, 115, 105, 122, 101, 61, 123, 105, 99, 111, 110, 83, 105, 122, 101, 125, 32, 115, 116, 114, 111, 107, 101, 87, 105, 100, 116, 104, 61, 123, 105, 99, 111, 110, 83, 116, 114, 111, 107, 101, 125, 32, 47, 62, 44, 10>> \o
    \* line 20:   configuracion: <Settings size={iconSize} strokeWidth={iconStroke} />,\n
    <<32, 32, 99, 111, 110, 102, 105, 103, 117, 114, 97, 99, 105, 111, 110, 58, 32, 60, 83, 101, 116, 116, 105, 110, 103, 115, 32, 115, 105, 122, 101, 61, 123, 105, 99, 111, 110, 83, 105, 122, 101, 125, 32, 115, 116, 114, 111, 107, 101, 87, 105, 100, 116, 104, 61, 123, 105, 99, 111, 110, 83, 116, 114, 111, 107, 101, 125, 32, 47, 62, 44, 10>> \o
    \* line 21:   paginas: <FileStack size={18} strokeWidth={iconStroke} />,\n
    <<32, 32, 112, 97, 103, 105, 110, 97, 115, 58, 32, 60, 70, 105, 108, 101, 83, 116, 97, 99, 107, 32, 115, 105, 122, 101, 61, 123, 49, 56, 125, 32, 115, 116, 114, 111, 107, 101, 87, 105, 100, 116, 104, 61, 123, 105, 99, 111, 110, 83, 116, 114, 111, 107, 101, 125, 32, 47, 62, 44, 10>> \o
    \* line 22:   secciones: <Layout size={18} strokeWidth={iconStroke} />,\n
    <<32, 32, 115, 101, 99, 99, 105, 111, 110, 101, 115, 58, 32, 60, 76, 97, 121, 111, 117, 116, 32, 115, 105, 122, 101, 61, 123, 49, 56, 125, 32, 115, 116, 114, 111, 107, 101, 87, 105, 100, 116, 104, 61, 123, 105, 99, 111, 110, 83, 116, 114, 111, 107, 101, 125, 32, 47, 62, 44, 10>> \o
    \* line 23:   tema: <Palette size={18} strokeWidth={iconStroke} />,\n
    <<32, 32, 116, 101, 109, 97, 58, 32, 60, 80, 97, 108, 101, 116, 116, 101, 32, 115, 105, 122, 101, 61, 123, 49, 56, 125, 32, 115, 116, 114, 111, 107, 101, 87, 105, 100, 116, 104, 61, 123, 105, 99, 111, 110, 83, 116, 114, 111, 107, 101, 125, 32, 47, 62, 44, 10>> \o
    \* line 24:   general: <Sliders size={18} strokeWidth={iconStroke} />,\n
    <<32, 32, 103, 101, 110, 101, 114, 97, 108, 58, 32, 60, 83, 108, 105, 100, 101, 114, 115, 32, 115, 105, 122, 101, 61, 123, 49, 56, 125, 32, 115, 116, 114, 111, 107, 101, 87, 105, 100, 116, 104, 61, 123, 105, 99, 111, 110, 83, 116, 114, 111, 107, 101, 125, 32, 47, 62, 44, 10>> \o
    \* line 25:   chevronDown: <ChevronDown size={16} strokeWidth={iconStroke} />,\n
    <<32, 32, 99, 104, 101, 118, 114, 111, 110, 68, 111, 119, 110, 58, 32, 60, 67, 104, 101, 118, 114, 111, 110, 68, 111, 119, 110, 32, 115, 105, 122, 101, 61, 123, 49, 54, 125, 32, 115, 116, 114, 111, 107, 101, 87, 105, 100, 116, 104, 61, 123, 105, 99, 111, 110, 83, 116, 114, 111, 107, 101, 125, 32, 47, 62, 44, 10>> \o
    \* line 26:   external: <ExternalLink size={16} strokeWidth={iconStroke} />,\n
    <<32, 32, 101, 120, 116, 101, 114, 110, 97, 108, 58, 32, 60, 69, 120, 116, 101, 114, 110, 97, 108, 76, 105, 110, 107, 32, 115, 105, 122, 101, 61, 123, 49, 54, 125, 32, 115, 116, 114, 111, 107, 101, 87, 105, 100, 116, 104, 61, 123, 105, 99, 111, 110, 83, 116, 114, 111, 107, 101, 125, 32, 47, 62, 44, 10>> \o
    \* line 27:   admin: <Shield size={18} strokeWidth={iconStroke} />,\n
    <<32, 32, 97, 100, 109, 105, 110, 58, 32, 60, 83, 104, 105, 101, 108, 100, 32, 115, 105, 122, 101, 61, 123, 49, 56, 125, 32, 115, 116, 114, 111, 107, 101, 87, 105, 100, 116, 104, 61, 123, 105, 99, 111, 110, 83, 116, 114, 111, 107, 101, 125, 32, 47, 62, 44, 10>> \o
    \* line 28:   metas: <Target size={iconSize} strokeWidth={iconStroke} />,\n
    <<32, 32, 109, 101, 116, 97, 115, 58, 32, 60, 84, 97, 114, 103, 101, 116, 32, 115, 105, 122, 101, 61, 123, 105, 99, 111, 110, 83, 105, 122, 101, 125, 32, 115, 116, 114, 111, 107, 101, 87, 105, 100, 116, 104, 61, 123, 105, 99, 111, 110, 83, 116, 114, 111, 107, 101, 125, 32, 47, 62, 44, 10>> \o
    \* line 29:   actividades: <Activity size={iconSize} strokeWidth={iconStroke} />,\n
    <<32, 32, 97, 99, 116, 105, 118, 105, 100, 97, 100, 101, 115, 58, 32, 60, 65, 99, 116, 105, 118, 105, 116, 121, 32, 115, 105, 122, 101, 61, 123, 105, 99, 111, 110, 83, 105, 122, 101, 125, 32, 115, 116, 114, 111, 107, 101, 87, 105, 100, 116, 104, 61, 123, 105, 99, 111, 110, 83, 116, 114, 111, 107, 101, 125, 32, 47, 62, 44, 10>> \o
    \* line 30:   finanzas: <DollarSign size={iconSize} strokeWidth={iconStroke} />,\n
    <<32, 32, 102, 105, 110, 97, 110, 122, 97, 115, 58, 32, 60, 68, 111, 108, 108, 97, 114, 83, 105, 103, 110, 32, 115, 105, 122, 101, 61, 123, 105, 99, 111, 110, 83, 105, 122, 101, 125, 32, 115, 116, 114, 111, 107, 101, 87, 105, 100, 116, 104, 61, 123, 105, 99, 111, 110, 83, 116, 114, 111, 107, 101, 125, 32, 47, 62, 44, 10>> \o
    \* line 31:   ventas: <ShoppingCart size={18} strokeWidth={iconStroke} />,\n
    <<32, 32, 118, 101, 110, 116, 97, 115, 58, 32, 60, 83, 104, 111, 112, 112, 105, 110, 103, 67, 97, 114, 116, 32, 115, 105, 122, 101, 61, 123, 49, 56, 125, 32, 115, 116, 114, 111, 107, 101, 87, 105, 100, 116, 104, 61, 123, 105, 99, 111, 110, 83, 116, 114, 111, 107, 101, 125, 32, 47, 62, 44, 10>> \o
    \* line 32:   comisiones: <Clock size={18} strokeWidth={iconStroke} />,\n
    <<32, 32, 99, 111, 109, 105, 115, 105, 111, 110, 101, 115, 58, 32, 60, 67, 108, 111, 99, 107, 32, 115, 105, 122, 101, 61, 123, 49, 56, 125, 32, 115, 116, 114, 111, 107, 101, 87, 105, 100, 116, 104, 61, 123, 105, 99, 111, 110, 83, 116, 114, 111, 107, 101, 125, 32, 47, 62, 44, 10>> \o
    \* line 33:   facturas: <Receipt size={18} strokeWidth={iconStroke} />,\n
    <<32, 32, 102, 97, 99, 116, 117, 114, 97, 115, 58, 32, 60, 82, 101, 99, 101, 105, 112, 116, 32, 115, 105, 122, 101, 61, 123, 49, 56, 125, 32, 115, 116, 114, 111, 107, 101, 87, 105, 100, 116, 104, 61, 123, 105, 99, 111, 110, 83, 116, 114, 111, 107, 101, 125, 32, 47, 62, 44, 10>> \o
    \* line 34:   configuracionFinanzas: <Settings size={18} strokeWidth={iconStroke} />,\n
    <<32, 32, 99, 111, 110, 102, 105, 103, 117, 114, 97, 99, 105, 111, 110, 70, 105, 110, 97, 110, 122, 97, 115, 58, 32, 60, 83, 101, 116, 116, 105, 110, 103, 115, 32, 115, 105, 122, 101, 61, 123, 49, 56, 125, 32, 115, 116, 114, 111, 107, 101, 87, 105, 100, 116, 104, 61, 123, 105, 99, 111, 110, 83, 116, 114, 111, 107, 101, 125, 32, 47, 62, 44, 10>> \o
    \* line 35:   mensajeria: <MessageSquare size={iconSize} strokeWidth={iconStroke} />,\n
    <<32, 32, 109, 101, 110, 115, 97, 106, 101, 114, 105, 97, 58, 32, 60, 77, 101, 115, 115, 97, 103, 101, 83, 113, 117, 97, 114, 101, 32, 115, 105, 122, 101, 61, 123, 105, 99, 111, 110, 83, 105, 122, 101, 125, 32, 115, 116, 114, 111, 107, 101, 87, 105, 100, 116, 104, 61, 123, 105, 99, 111, 110, 83, 116, 114, 111, 107, 101, 125, 32, 47, 62, 44, 10>> \o
    \* line 36:   correo: <Mail size={18} strokeWidth={iconStroke} />,\n
    <<32, 32, 99, 111, 114, 114, 101, 111, 58, 32, 60, 77, 97, 105, 108, 32, 115, 105, 122, 101, 61, 123, 49, 56, 125, 32, 115, 116, 114, 111, 107, 101, 87, 105, 100, 116, 104, 61, 123, 105, 99, 111, 110, 83, 116, 114, 111, 107, 101, 125, 32, 47, 62, 44, 10>> \o
    \* line 37:   whatsapp: <MessageCircle size={18} strokeWidth={iconStroke} />,\n
    <<32, 32, 119, 104, 97, 116, 115, 97, 112, 112, 58, 32, 60, 77, 101, 115, 115, 97, 103, 101, 67, 105, 114, 99, 108, 101, 32, 115, 105, 122, 101, 61, 123, 49, 56, 125, 32, 115, 116, 114, 111, 107, 101, 87, 105, 100, 116, 104, 61, 123, 105, 99, 111, 110, 83, 116, 114, 111, 107, 101, 125, 32, 47, 62, 44, 10>> \o
    \* line 38:   instagram: <InstagramIcon size={18} strokeWidth={iconStroke} />,\n
    <<32, 32, 105, 110, 115, 116, 97, 103, 114, 97, 109, 58, 32, 60, 73, 110, 115, 116, 97, 103, 114, 97, 109, 73, 99, 111, 110, 32, 115, 105, 122, 101, 61, 123, 49, 56, 125, 32, 115, 116, 114, 111, 107, 101, 87, 105, 100, 116, 104, 61, 123, 105, 99, 111, 110, 83, 116, 114, 111, 107, 101, 125, 32, 47, 62, 44, 10>> \o
    \* line 39:   facebook: <FacebookIcon size={18} strokeWidth={iconStroke} />,\n
    <<32, 32, 102, 97, 99, 101, 98, 111, 111, 107, 58, 32, 60, 70, 97, 99, 101, 98, 111, 111, 107, 73, 99, 111, 110, 32, 115, 105, 122, 101, 61, 123, 49, 56, 125, 32, 115, 116, 114, 111, 107, 101, 87, 105, 100, 116, 104, 61, 123, 105, 99, 111, 110, 83, 116, 114, 111, 107, 101, 125, 32, 47, 62, 44, 10>> \o
    \* line 40:   chatVivo: <MessageSquare size={18} strokeWidth={iconStroke} />,\n
    <<32, 32, 99, 104, 97, 116, 86, 105, 118, 111, 58, 32, 60, 77, 101, 115, 115, 97, 103, 101, 83, 113, 117, 97, 114, 101, 32, 115, 105, 122, 101, 61, 123, 49, 56, 125, 32, 115, 116, 114, 111, 107, 101, 87, 105, 100, 116, 104, 61, 123, 105, 99, 111, 110, 83, 116, 114, 111, 107, 101, 125, 32, 47, 62, 44, 10>> \o
    \* line 41:   configuracionMensajeria: <Settings size={18} strokeWidth={iconStroke} />,\n
    <<32, 32, 99, 111, 110, 102, 105, 103, 117, 114, 97, 99, 105, 111, 110, 77, 101, 110, 115, 97, 106, 101, 114, 105, 97, 58, 32, 60, 83, 101, 116, 116, 105, 110, 103, 115, 32, 115, 105, 122, 101, 61, 123, 49, 56, 125, 32, 115, 116, 114, 111, 107, 101, 87, 105, 100, 116, 104, 61, 123, 105, 99, 111, 110, 83, 116, 114, 111, 107, 101, 125, 32, 47, 62, 44, 10>> \o
    \* line 42:   back: <ArrowLeft size={16} strokeWidth={iconStroke} />,\n
    <<32, 32, 98, 97, 99, 107, 58, 32, 60, 65, 114, 114, 111, 119, 76, 101, 102, 116, 32, 115, 105, 122, 101, 61, 123, 49, 54, 125, 32, 115, 116, 114, 111, 107, 101, 87, 105, 100, 116, 104, 61, 123, 105, 99, 111, 110, 83, 116, 114, 111, 107, 101, 125, 32, 47, 62, 44, 10>> \o
    \* line 43:   web: <Globe size={iconSize} strokeWidth={iconStroke} />,\n
    <<32, 32, 119, 101, 98, 58, 32, 60, 71, 108, 111, 98, 101, 32, 115, 105, 122, 101, 61, 123, 105, 99, 111, 110, 83, 105, 122, 101, 125, 32, 115, 116, 114, 111, 107, 101, 87, 105, 100, 116, 104, 61, 123, 105, 99, 111, 110, 83, 116, 114, 111, 107, 101, 125, 32, 47, 62, 44, 10>> \o
    \* line 44:   clicConnect: <Link2 size={iconSize} strokeWidth={iconStroke} />,\n
    <<32, 32, 99, 108, 105, 99, 67, 111, 110, 110, 101, 99, 116, 58, 32, 60, 76, 105, 110, 107, 50, 32, 115, 105, 122, 101, 61, 123, 105, 99, 111, 110, 83, 105, 122, 101, 125, 32, 115, 116, 114, 111, 107, 101, 87, 105, 100, 116, 104, 61, 123, 105, 99, 111, 110, 83, 116, 114, 111, 107, 101, 125, 32, 47, 62, 44, 10>> \o
    \* line 45:   sistemaFases: <TrendingUp size={iconSize} strokeWidth={iconStroke} />,\n
    <<32, 32, 115, 105, 115, 116, 101, 109, 97, 70, 97, 115, 101, 115, 58, 32, 60, 84, 114, 101, 110, 100, 105, 110, 103, 85, 112, 32, 115, 105, 122, 101, 61, 123, 105, 99, 111, 110, 83, 105, 122, 101, 125, 32, 115, 116, 114, 111, 107, 101, 87, 105, 100, 116, 104, 61, 123, 105, 99, 111, 110, 83, 116, 114, 111, 107, 101, 125, 32, 47, 62, 44, 10>> \o
    \* line 46: };
    <<125, 59>>

\* src line 56
message == "Iconos reemplazados exitosamente!"

(***************************************************************************)
(* Sequence helpers.                                                       *)
(***************************************************************************)
Min(S) == CHOOSE i \in S : \A j \in S : i <= j

Max(S) == CHOOSE i \in S : \A j \in S : i >= j

Positions(s) == [i \in 1..Len(s) |-> i]

(***************************************************************************)
(* encoding='utf-8': the codec of open(..., 'r') and open(..., 'w').       *)
(***************************************************************************)
IsCont(b) == b \in 128..191

\* The length of the sequence a lead byte announces; 0 for a byte that
\* cannot start one (a continuation byte, C0, C1, F5..FF).
SeqLen(b) ==
    IF b < 128 THEN 1
    ELSE IF b \in 194..223 THEN 2
    ELSE IF b \in 224..239 THEN 3
    ELSE IF b \in 240..244 THEN 4
    ELSE 0

\* The sequence starting at i is complete and well formed (no overlong form,
\* no surrogate, nothing above U+10FFFF).
ValidLead(bs, i) ==
    LET n == SeqLen(bs[i])
    IN  /\ n > 0
        /\ i + n - 1 <= Len(bs)
        /\ \A k \in 1..(n - 1) : IsCont(bs[i + k])
        /\ bs[i] = 224 => bs[i + 1] >= 160
        /\ bs[i] = 237 => bs[i + 1] <= 159
        /\ bs[i] = 240 => bs[i + 1] >= 144
        /\ bs[i] = 244 => bs[i + 1] <= 143

\* A continuation byte belongs to the nearest lead byte before it.
Covered(bs, i) ==
    \E k \in 1..3 :
        /\ i - k >= 1
        /\ ~IsCont(bs[i - k])
        /\ \A m \in 1..(k - 1) : IsCont(bs[i - m])
        /\ SeqLen(bs[i - k]) > k

WellFormed(bs) ==
    \A i \in 1..Len(bs) :
        IF IsCont(bs[i]) THEN Covered(bs, i) ELSE ValidLead(bs, i)

CodePoint(bs, i) ==
    LET n == SeqLen(bs[i])
    IN  IF n = 1 THEN bs[i]
        ELSE IF n = 2 THEN (bs[i] - 192) * 64 + (bs[i + 1] - 128)
        ELSE IF n = 3 THEN (bs[i] - 224) * 4096 + (bs[i + 1] - 128) * 64
                           + (bs[i + 2] - 128)
        ELSE (bs[i] - 240) * 262144 + (bs[i + 1] - 128) * 4096
             + (bs[i + 2] - 128) * 64 + (bs[i + 3] - 128)

\* bytes.decode('utf-8'), on well-formed input.
utf8_decode(bs) ==
    LET leads == SelectSeq(Positions(bs), LAMBDA i : ~IsCont(bs[i]))
    IN  [k \in 1..Len(leads) |-> CodePoint(bs, leads[k])] \o <<>>

\* Variant: a one-byte codec (latin-1) for the characters below U+0100.
EncodeCharNarrow(c) ==
    IF c < 256 THEN <<c>>
    ELSE IF c < 2048 THEN <<192 + (c \div 64), 128 + (c % 64)>>
    ELSE <<224 + (c \div 4096), 128 + ((c \div 64) % 64), 128 + (c % 64)>>

EncodeChar(c) ==
    IF c < 128 THEN <<c>>
    ELSE IF c < 2048 THEN <<192 + (c \div 64), 128 + (c % 64)>>
    ELSE IF c < 65536 THEN
        <<224 + (c \div 4096), 128 + ((c \div 64) % 64), 128 + (c % 64)>>
    ELSE <<240 + (c \div 262144), 128 + ((c \div 4096) % 64),
           128 + ((c \div 64) % 64), 128 + (c % 64)>>

\* The encoding of s[lo..hi]: a run of ASCII characters is its own encoding,
\* any other run is encoded by halves.
RECURSIVE EncodeRange(_, _, _)
EncodeRange(s, lo, hi) ==
    IF \A i \in lo..hi : s[i] < 128 THEN SubSeq(s, lo, hi)
    ELSE IF lo = hi THEN EncodeChar(s[lo])
    ELSE LET mid == (lo + hi) \div 2
         IN  EncodeRange(s, lo, mid) \o EncodeRange(s, mid + 1, hi)

\* str.encode('utf-8')
utf8_encode(s) == EncodeRange(s, 1, Len(s))

(***************************************************************************)
(* newline=None: the newline handling of text mode.                        *)
(***************************************************************************)
\* On read "\r\n" and a lone "\r" both become "\n".
newline_in(s) ==
    LET kept == SelectSeq(Positions(s),
                          LAMBDA i : ~(s[i] = 10 /\ i > 1 /\ s[i - 1] = 13))
    IN  [k \in 1..Len(kept) |-> IF s[kept[k]] = 13 THEN 10 ELSE s[kept[k]]]
            \o <<>>

\* s[lo..hi] with every "\n" replaced by sep: a run without "\n" stays as
\* it is, any other run is translated by halves.
RECURSIVE TranslateRange(_, _, _, _)
TranslateRange(s, sep, lo, hi) ==
    IF \A i \in lo..hi : s[i] # 10 THEN SubSeq(s, lo, hi)
    ELSE IF lo = hi THEN sep
    ELSE LET mid == (lo + hi) \div 2
         IN  TranslateRange(s, sep, lo, mid)
             \o TranslateRange(s, sep, mid + 1, hi)

\* On write every "\n" becomes os.linesep.
newline_out(s, sep) == TranslateRange(s, sep, 1, Len(s))

(***************************************************************************)
(* re.sub(pattern, icons_replacement, content), src lines 49-50.           *)
(* pattern = pattern_open, then [\s\S]*? (any characters, as few as        *)
(* possible), then pattern_close.  No count is given, so every             *)
(* non-overlapping match is replaced, scanning from the left.  The         *)
(* replacement holds no backslash, so its template expansion is itself.    *)
(***************************************************************************)
MatchesAt(t, pat, i) ==
    /\ i + Len(pat) - 1 <= Len(t)
    /\ \A k \in 1..Len(pat) : t[i + k - 1] = pat[k]

\* The first position >= from where pat occurs in t; 0 when there is none.
search(t, pat, from) ==
    LET S == {i \in from..(Len(t) - Len(pat) + 1) : MatchesAt(t, pat, i)}
    IN  IF S = {} THEN 0 ELSE Min(S)

\* The start of the leftmost match at or after pos: the first opening marker
\* (a marker with no closing token after it has none after any later marker
\* either, so the scan fails for all starts).
match_start(t, pos) == search(t, pattern_open, pos)

\* Variant: a greedy quantifier, which runs to the last closing token.
match_close_greedy(t, s) ==
    LET S == {i \in (s + Len(pattern_open))..(Len(t) - Len(pattern_close) + 1)
                : MatchesAt(t, pattern_close, i)}
    IN  IF S = {} THEN 0 ELSE Max(S)

\* Variant: a closing token that is optional, so that a marker with none
\* after it matches to the end of the text.
match_close_or_end(t, s) ==
    LET e == search(t, pattern_close, s + Len(pattern_open))
    IN  IF e = 0 THEN Len(t) - Len(pattern_close) + 1 ELSE e

\* Where the lazy quantifier stops: the first closing token after the marker.
match_close(t, s) == search(t, pattern_close, s + Len(pattern_open))

RECURSIVE re_sub_from(_, _, _)
re_sub_from(repl, t, pos) ==
    LET s == match_start(t, pos)
        e == IF s = 0 THEN 0 ELSE match_close(t, s)
    IN  IF e = 0 THEN SubSeq(t, pos, Len(t))
        ELSE SubSeq(t, pos, s - 1) \o repl
             \o re_sub_from(repl, t, e + Len(pattern_close))

\* Variant: re.sub(pattern, repl, t, count=1).
re_sub_first(repl, t) ==
    LET s == match_start(t, 1)
        e == IF s = 0 THEN 0 ELSE match_close(t, s)
    IN  IF e = 0 THEN t
        ELSE SubSeq(t, 1, s - 1) \o repl
             \o SubSeq(t, e + Len(pattern_close), Len(t))

re_sub(repl, t) == re_sub_from(repl, t, 1)

(***************************************************************************)
(* The file system and the processes.                                      *)
(***************************************************************************)
VARIABLES
    exists,     \* whether the path names a file
    file,       \* the bytes of CrmLayout.tsx (empty while it does not exist)
    perms,      \* what the user may do with it: a subset of {"r", "w"}
    linesep,    \* os.linesep of the platform: "\n" or "\r\n"
    pc,         \* pc[p]: the statement instance p executes next
    content,    \* content[p]: the script's variable (src lines 5, 50)
    stdout,     \* stdout[p]: the lines p has printed
    err,        \* err[p]: the exception that ended p, "" if none
    log,        \* log[p]: the steps p has completed, in order
    source,     \* source[p]: the text f.read() returned to p
    before,     \* before[p]: the file when p was started
    torn,       \* torn[p]: p read while another instance had truncated
                \*          the file and not yet written it
    lastWriter, \* the instance whose write came last, 0 if none
    original    \* the file before any instance ran

vars == <<exists, file, perms, linesep, pc, content, stdout, err, log,
          source, before, torn, lastWriter, original>>

\* The script is run twice: one run after the other (Spec) or both at once
\* (SpecConc).
Instances == {1, 2}

Running == {"open_r", "read", "sub", "open_w", "write", "print"}

\* The statements of the module body in program order.
Steps == <<"open_r", "read", "substitute", "open_w", "write", "print">>

\* What the initial file is made of: the opening marker, the closing token,
\* a whole block, a non-ASCII character (U+00E1), a byte that is not UTF-8,
\* and a carriage return.
Pieces ==
    { pattern_open, pattern_close, pattern_open \o pattern_close,
      <<195, 161>>, <<255>>, <<13>> }

RECURSIVE Files(_)
Files(n) ==
    IF n = 0 THEN {<<>>}
    ELSE LET F == Files(n - 1) IN F \cup {f \o p : f \in F, p \in Pieces}

Boot ==
    /\ perms \in {{"r", "w"}, {"r"}, {"w"}}
    /\ linesep \in {<<10>>, <<13, 10>>}
    /\ pc = [p \in Instances |-> "idle"]
    /\ content = [p \in Instances |-> <<>>]
    /\ stdout = [p \in Instances |-> <<>>]
    /\ err = [p \in Instances |-> ""]
    /\ log = [p \in Instances |-> <<>>]
    /\ source = [p \in Instances |-> <<>>]
    /\ before = [p \in Instances |-> <<>>]
    /\ torn = [p \in Instances |-> FALSE]
    /\ lastWriter = 0
    /\ original = file

Init ==
    /\ \/ exists = TRUE /\ file \in Files(MaxPieces)
       \/ exists = FALSE /\ file = <<>>
    /\ Boot

InitConc ==
    /\ exists = TRUE
    /\ file \in Files(MaxPiecesConc)
    /\ Boot
    /\ perms = {"r", "w"}

\* Variant: the exception is caught and the script carries on.
RaiseSwallowed(p, e) ==
    /\ pc' = [pc EXCEPT ![p] = IF pc[p] = "open_w" THEN "print" ELSE "sub"]
    /\ err' = [err EXCEPT ![p] = e]

\* An unhandled exception ends the process: nothing after the raising
\* statement runs.
Raise(p, e) ==
    /\ pc' = [pc EXCEPT ![p] = "error"]
    /\ err' = [err EXCEPT ![p] = e]

\* The script is started again after the previous run has ended, with the
\* message or with an exception.
Launch(p) ==
    /\ pc[p] = "idle"
    /\ \A q \in Instances : q < p => pc[q] \in {"done", "error"}
    /\ pc' = [pc EXCEPT ![p] = "open_r"]
    /\ before' = [before EXCEPT ![p] = file]
    /\ UNCHANGED <<exists, original, file, perms, linesep, content, stdout,
                   err, log, source, torn, lastWriter>>

\* The script is started, whatever the other instance is doing.
Spawn(p) ==
    /\ pc[p] = "idle"
    /\ pc' = [pc EXCEPT ![p] = "open_r"]
    /\ before' = [before EXCEPT ![p] = file]
    /\ UNCHANGED <<exists, original, file, perms, linesep, content, stdout,
                   err, log, source, torn, lastWriter>>

\* src line 4: open(path, 'r', encoding='utf-8')
OpenRead(p) ==
    /\ pc[p] = "open_r"
    /\ IF ~exists THEN
           Raise(p, "FileNotFoundError") /\ UNCHANGED log
       ELSE IF "r" \notin perms THEN
           Raise(p, "PermissionError") /\ UNCHANGED log
       ELSE
           /\ pc' = [pc EXCEPT ![p] = "read"]
           /\ log' = [log EXCEPT ![p] = Append(@, "open_r")]
           /\ UNCHANGED err
    /\ UNCHANGED <<exists, original, file, perms, linesep, content, stdout,
                   source, before, torn, lastWriter>>

\* src line 5: content = f.read(), and the close at the end of the with.
Read(p) ==
    /\ pc[p] = "read"
    /\ IF ~WellFormed(file) THEN
           /\ Raise(p, "UnicodeDecodeError")
           /\ UNCHANGED <<content, source, log, torn>>
       ELSE
           /\ content' = [content EXCEPT ![p] = newline_in(utf8_decode(file))]
           /\ source' = [source EXCEPT ![p] = content'[p]]
           /\ torn' = [torn EXCEPT
                         ![p] = \E q \in Instances \ {p} : pc[q] = "write"]
           /\ pc' = [pc EXCEPT ![p] = "sub"]
           /\ log' = [log EXCEPT ![p] = Append(@, "read")]
           /\ UNCHANGED err
    /\ UNCHANGED <<exists, original, file, perms, linesep, stdout, before,
                   lastWriter>>

\* src lines 49-50: content = re.sub(pattern, icons_replacement, content)
Substitute(p) ==
    /\ pc[p] = "sub"
    /\ content' = [content EXCEPT ![p] = re_sub(icons_replacement, @)]
    /\ pc' = [pc EXCEPT ![p] = "open_w"]
    /\ log' = [log EXCEPT ![p] = Append(@, "substitute")]
    /\ UNCHANGED <<exists, original, file, perms, linesep, stdout, err,
                   source, before, torn, lastWriter>>

\* Variant: the file is opened without truncation (mode 'r+').
OpenWriteKeep(p) ==
    /\ pc[p] = "open_w"
    /\ IF "w" \notin perms THEN
           Raise(p, "PermissionError") /\ UNCHANGED log
       ELSE
           /\ pc' = [pc EXCEPT ![p] = "write"]
           /\ log' = [log EXCEPT ![p] = Append(@, "open_w")]
           /\ UNCHANGED err
    /\ UNCHANGED <<exists, original, file, perms, linesep, content, stdout,
                   source, before, torn, lastWriter>>

\* Variant: the confirmation is printed before the save.
OpenWriteConfirms(p) ==
    /\ pc[p] = "open_w"
    /\ stdout' = [stdout EXCEPT ![p] = Append(@, message)]
    /\ IF "w" \notin perms THEN
           Raise(p, "PermissionError") /\ UNCHANGED <<file, log>>
       ELSE
           /\ file' = <<>>
           /\ pc' = [pc EXCEPT ![p] = "write"]
           /\ log' = [log EXCEPT ![p] = Append(@, "open_w")]
           /\ UNCHANGED err
    /\ UNCHANGED <<exists, original, perms, linesep, content, source, before,
                   torn, lastWriter>>

\* src line 53: open(path, 'w', encoding='utf-8') truncates the file.
OpenWrite(p) ==
    /\ pc[p] = "open_w"
    /\ IF "w" \notin perms THEN
           Raise(p, "PermissionError") /\ UNCHANGED <<file, log>>
       ELSE
           /\ file' = <<>>
           /\ pc' = [pc EXCEPT ![p] = "write"]
           /\ log' = [log EXCEPT ![p] = Append(@, "open_w")]
           /\ UNCHANGED err
    /\ UNCHANGED <<exists, original, perms, linesep, content, stdout,
                   source, before, torn, lastWriter>>

\* What f.write(text) leaves in the file: the text with "\n" as os.linesep,
\* encoded.
file_bytes(text, sep) == utf8_encode(newline_out(text, sep))

\* Variant: the file is opened for appending (mode 'a').
pwrite_append(old, bytes) == old \o bytes

\* The bytes land at the descriptor's offset, 0: they replace the head of
\* whatever the file holds by then.
pwrite(old, bytes) == bytes \o SubSeq(old, Len(bytes) + 1, Len(old))

\* src line 54: f.write(content), flushed by the close at the end of the with.
Write(p) ==
    /\ pc[p] = "write"
    /\ file' = pwrite(file, file_bytes(content[p], linesep))
    /\ lastWriter' = p
    /\ pc' = [pc EXCEPT ![p] = "print"]
    /\ log' = [log EXCEPT ![p] = Append(@, "write")]
    /\ UNCHANGED <<exists, original, perms, linesep, content, stdout, err,
                   source, before, torn>>

\* src line 56: print("Iconos reemplazados exitosamente!")
print(p) ==
    /\ pc[p] = "print"
    /\ stdout' = [stdout EXCEPT ![p] = Append(@, message)]
    /\ pc' = [pc EXCEPT ![p] = "done"]
    /\ log' = [log EXCEPT ![p] = Append(@, "print")]
    /\ UNCHANGED <<exists, original, file, perms, linesep, content, err,
                   source, before, torn, lastWriter>>

\* The process is killed, or the machine stops, between two statements.
Crash(p) ==
    /\ pc[p] \in Running
    /\ pc' = [pc EXCEPT ![p] = "crashed"]
    /\ UNCHANGED <<exists, original, file, perms, linesep, content, stdout,
                   err, log, source, before, torn, lastWriter>>

Next ==
    \E p \in Instances :
        \/ Launch(p)
        \/ OpenRead(p)
        \/ Read(p)
        \/ Substitute(p)
        \/ OpenWrite(p)
        \/ Write(p)
        \/ print(p)
        \/ Crash(p)

Spec == Init /\ [][Next]_vars

NextConc ==
    \E p \in Instances :
        \/ Spawn(p)
        \/ OpenRead(p)
        \/ Read(p)
        \/ Substitute(p)
        \/ OpenWrite(p)
        \/ Write(p)
        \/ print(p)

SpecConc == InitConc /\ [][NextConc]_vars


(***************************************************************************)
(* The pattern's matches, stated on the text rather than by scanning.      *)
(***************************************************************************)
R == icons_replacement

\* Every position where pat occurs in t.
Occ(t, pat) == {i \in 1..(Len(t) - Len(pat) + 1) : MatchesAt(t, pat, i)}

\* The closing tokens that lie after the marker at s.
ClosesAfter(t, s) ==
    {c \in Occ(t, pattern_close) : c >= s + Len(pattern_open)}

\* The pattern matches somewhere in t: some marker, hence the first one, has
\* a closing token after it.
HasSpan(t) ==
    /\ Occ(t, pattern_open) # {}
    /\ ClosesAfter(t, Min(Occ(t, pattern_open))) # {}

FirstOpen(t) == Min(Occ(t, pattern_open))
FirstClose(t) == Min(ClosesAfter(t, FirstOpen(t)))

\* The text before the leftmost match, and the text after it.
Pre(t) == SubSeq(t, 1, FirstOpen(t) - 1)
Post(t) == SubSeq(t, FirstClose(t) + Len(pattern_close), Len(t))

\* The markers that start a match of a left-to-right scan: a marker with a
\* closing token after it that is the first marker, or has a closing token
\* between the marker before it and itself.
SpanStarts(t) ==
    {m \in Occ(t, pattern_open) :
        /\ ClosesAfter(t, m) # {}
        /\ LET earlier == {m2 \in Occ(t, pattern_open) : m2 < m}
           IN  earlier # {} =>
                 \E c \in ClosesAfter(t, Max(earlier)) : c < m}

Did(p, step) == \E i \in 1..Len(log[p]) : log[p][i] = step

Has(s, c) == \E i \in 1..Len(s) : s[i] = c

AllDone == \A p \in Instances : pc[p] = "done"

\* What a run that completes makes of a file: f.read, re.sub, f.write.
Patched(bytes, sep) ==
    file_bytes(re_sub(R, newline_in(utf8_decode(bytes))), sep)

(***************************************************************************)
(* C1                                                                      *)
(***************************************************************************)
\* C1, as claimed: substitute performs at most one substitution; of two or
\* more disjoint spans only the leftmost is replaced and every later span is
\* left as it was.
C1_OnlyFirstReplaced ==
    \A p \in Instances :
        (pc[p] = "open_w" /\ HasSpan(source[p])) =>
            content[p] = Pre(source[p]) \o R \o Post(source[p])

\* C1, amended: substitute replaces every span of a left-to-right scan, not
\* only the leftmost: the result is the text before the leftmost span, the
\* replacement block, and the rest with its spans replaced the same way;
\* a text that held no replacement block holds one per span afterwards.
C1_EverySpanReplaced ==
    \A p \in Instances :
        pc[p] = "open_w" =>
            IF ~HasSpan(source[p]) THEN content[p] = source[p]
            ELSE /\ content[p] =
                        Pre(source[p]) \o R \o re_sub(R, Post(source[p]))
                 /\ Occ(source[p], R) = {} =>
                        Cardinality(Occ(content[p], R))
                            = Cardinality(SpanStarts(source[p]))

C1_Witness ==
    \E p \in Instances :
        /\ pc[p] = "open_w"
        /\ Cardinality(SpanStarts(source[p])) >= 2

(***************************************************************************)
(* C2                                                                      *)
(***************************************************************************)
\* C2: substituting the text that substitute has just returned changes
\* nothing, and a second run that completes after a first one has completed
\* leaves the file as the first run left it.
C2_Idempotent ==
    \A p \in Instances :
        /\ pc[p] = "open_w" => re_sub(R, content[p]) = content[p]
        /\ \A q \in Instances :
              (q < p /\ pc[q] = "done" /\ pc[p] = "done") =>
                  /\ file = before[p]
                  /\ content[p] = source[p]

C2_Witness ==
    /\ pc[1] = "done"
    /\ pc[2] = "done"
    /\ Cardinality(SpanStarts(source[1])) >= 2

(***************************************************************************)
(* C3                                                                      *)
(***************************************************************************)
\* C3, as claimed: the text written is the text before the matched span, the
\* replacement block, and the text after the matched span as it was.
C3_SuffixAsItWas ==
    \A p \in Instances :
        (pc[p] = "print" /\ HasSpan(source[p])) =>
            file = file_bytes(Pre(source[p]) \o R \o Post(source[p]), linesep)

\* C3, amended: the text written is the text before the leftmost span, the
\* replacement block, and the text after that span with every later span in
\* it replaced likewise; where the platform's newline is "\n" and the file
\* had no carriage return, the bytes outside the spans are the file's own,
\* non-ASCII characters included.
C3_ExactReplacement ==
    \A p \in Instances :
        (pc[p] = "print" /\ HasSpan(source[p])) =>
            /\ file = file_bytes(
                   Pre(source[p]) \o R \o re_sub(R, Post(source[p])), linesep)
            /\ (linesep = <<10>> /\ ~Has(before[p], 13)) =>
                  file = Pre(before[p]) \o R \o re_sub(R, Post(before[p]))

C3_Witness ==
    \E p \in Instances :
        /\ pc[p] = "print"
        /\ HasSpan(source[p])
        /\ Has(Pre(source[p]), 225)
        /\ Has(Post(source[p]), 225)
        /\ linesep = <<10>>

(***************************************************************************)
(* C4                                                                      *)
(***************************************************************************)
\* C4, as claimed: with several closing tokens after the marker the span
\* ends at the first, and the text from there up to and including the last
\* closing token is kept in the output.
C4_RestKept ==
    \A p \in Instances :
        (/\ pc[p] = "open_w"
         /\ HasSpan(source[p])
         /\ Cardinality(ClosesAfter(source[p], FirstOpen(source[p]))) >= 2) =>
            LET t == source[p]
                last == Max(ClosesAfter(t, FirstOpen(t)))
                kept == SubSeq(t, FirstClose(t) + Len(pattern_close),
                               last + Len(pattern_close) - 1)
                at == Len(Pre(t)) + Len(R)
            IN  SubSeq(content[p], at + 1, at + Len(kept)) = kept

\* C4, amended: with several closing tokens after the marker the span ends
\* at the first; the text after it is kept as it is when it holds no further
\* marker, and otherwise kept but for its own spans, which are replaced too.
C4_LazyBoundary ==
    \A p \in Instances :
        (/\ pc[p] = "open_w"
         /\ HasSpan(source[p])
         /\ Cardinality(ClosesAfter(source[p], FirstOpen(source[p]))) >= 2) =>
            LET t == source[p]
                at == Len(Pre(t)) + Len(R)
                tail == SubSeq(content[p], at + 1, Len(content[p]))
            IN  /\ SubSeq(content[p], 1, at) = Pre(t) \o R
                /\ IF Occ(Post(t), pattern_open) = {}
                   THEN tail = Post(t)
                   ELSE tail = re_sub(R, Post(t))

C4_Witness ==
    \E p \in Instances :
        /\ pc[p] = "open_w"
        /\ HasSpan(source[p])
        /\ Cardinality(ClosesAfter(source[p], FirstOpen(source[p]))) >= 2
        /\ Occ(Post(source[p]), pattern_open) = {}

(***************************************************************************)
(* C5                                                                      *)
(***************************************************************************)
\* C5: when nothing matches (no marker, or a marker with no closing token
\* after it) the text written is the text read and the message is printed.
C5_Passthrough ==
    \A p \in Instances :
        /\ (Did(p, "substitute") /\ content[p] # source[p]) =>
               HasSpan(source[p])
        /\ (pc[p] = "print" /\ ~HasSpan(source[p])) =>
               file = file_bytes(source[p], linesep)
        /\ (pc[p] = "done" /\ stdout[p] # <<message>>) =>
               HasSpan(source[p])

C5_Witness ==
    \E p \in Instances :
        /\ pc[p] = "done"
        /\ Occ(source[p], pattern_open) # {}
        /\ ~HasSpan(source[p])

(***************************************************************************)
(* C6                                                                      *)
(***************************************************************************)
\* C6: a run whose read fails ends in error, prints nothing, never opens the
\* file for writing, and leaves the file as it was.
C6_LoadFailure ==
    \A p \in Instances :
        (err[p] # "" /\ ~Did(p, "read")) =>
            /\ pc[p] = "error"
            /\ err[p] \in {"FileNotFoundError", "PermissionError",
                           "UnicodeDecodeError"}
            /\ stdout[p] = <<>>
            /\ ~Did(p, "open_w")
            /\ ~Did(p, "write")
            /\ file = before[p]
            /\ file = original

C6_Witness ==
    \E p \in Instances :
        /\ pc[p] = "error"
        /\ err[p] = "UnicodeDecodeError"
        /\ file # <<>>

(***************************************************************************)
(* C7                                                                      *)
(***************************************************************************)
\* C7: the steps of a run happen in program order; the message is printed
\* once by a run that completes, after its write, and never by a run that
\* fails.
C7_Ordering ==
    \A p \in Instances :
        /\ Len(log[p]) <= Len(Steps)
        /\ log[p] = SubSeq(Steps, 1, Len(log[p]))
        /\ stdout[p] \in {<<>>, <<message>>}
        /\ stdout[p] # <<>> <=> pc[p] = "done"
        /\ pc[p] = "done" => log[p] = Steps
        /\ pc[p] = "error" => stdout[p] = <<>>

C7_Witness ==
    \E p \in Instances :
        /\ pc[p] = "done"
        /\ log[p] = Steps
        /\ stdout[p] = <<message>>

(***************************************************************************)
(* C8                                                                      *)
(***************************************************************************)
\* C8, as claimed: when two concurrent instances have both completed, the
\* file holds the text of the instance that wrote last, and it is the
\* original content substituted.
C8_LastWriterWins ==
    AllDone =>
        /\ file = file_bytes(content[lastWriter], linesep)
        /\ file = Patched(original, linesep)

\* C8, amended: when two concurrent instances have both completed and
\* neither read the file between the other's truncation and the other's
\* write, the file holds the original content substituted.
C8_CleanReads ==
    (AllDone /\ \A p \in Instances : ~torn[p]) =>
        file = Patched(original, linesep)

C8_Witness ==
    /\ AllDone
    /\ \A p \in Instances : ~torn[p]
    /\ HasSpan(source[1])
    /\ source[2] # source[1]

(***************************************************************************)
(* C9                                                                      *)
(***************************************************************************)
\* C9: a run stopped between its open for writing and its write leaves the
\* file truncated: a file that was not empty then holds neither what it held
\* nor the result text, and nothing brings the content back.
C9_TruncatedOnCrash ==
    \A p \in Instances :
        (pc[p] = "crashed" /\ Did(p, "open_w") /\ ~Did(p, "write")) =>
            /\ file = <<>>
            /\ before[p] # <<>> =>
                  /\ file # before[p]
                  /\ file # file_bytes(content[p], linesep)

C9_Witness ==
    \E p \in Instances :
        /\ pc[p] = "crashed"
        /\ Did(p, "open_w")
        /\ ~Did(p, "write")
        /\ before[p] # <<>>

(***************************************************************************)
(* C10                                                                     *)
(***************************************************************************)
\* C10: the text a run has substituted holds no marker followed anywhere
\* later by a closing token, and neither does the file, read back, once a
\* run has completed and no run is in progress.
C10_NoSpanLeft ==
    /\ \A p \in Instances :
          pc[p] = "open_w" => ~HasSpan(content[p])
    /\ ((\E p \in Instances : pc[p] = "done")
          /\ (\A q \in Instances : pc[q] \notin Running)) =>
            /\ WellFormed(file)
            /\ ~HasSpan(newline_in(utf8_decode(file)))

C10_Witness ==
    \E p \in Instances :
        /\ pc[p] = "done"
        /\ HasSpan(source[p])
        /\ Occ(content[p], pattern_open) # {}
=============================================================================
